---- MODULE Spec2Model ----
(***************************************************************************)
(* Retrieval-and-routing pipeline of the internal-documents assistant:     *)
(* the paragraph chunker (app/ingestion.py) and the router with its two    *)
(* structured extractors (app/tools/*.py).                                 *)
(***************************************************************************)
EXTENDS Integers, Sequences, FiniteSets, TLC

VARIABLES
    \* ---- DocumentIngestion.chunk_text ----
    text,            \* the document text, a sequence of characters
    source,          \* the source name of the document
    chunk_size,      \* self.chunk_size (config.MAX_CHUNK_CHARS)
    paragraphs,      \* text.split("\n\n")
    p_idx,           \* position of the for loop in paragraphs
    current_chunk,   \* the accumulating buffer
    chunk_counter,   \* the id counter
    chunks,          \* the chunks emitted so far
    emit_path,       \* for each emitted chunk, the statement that emitted it
    last_path,       \* the branch the last loop iteration took
    c_pc,            \* "loop" while iterating, "done" after the return
    \* ---- RouterAgent.process_query ----
    query,           \* the query string given to process_query
    lax,             \* the schema library coerces numbers to str (or rejects)
    r_pc,            \* "start", "routed", "executed", "done"
    route_resp,      \* what the model call of _route_query produced
    decision,        \* the RouterDecision returned by _route_query
    ext_arg,         \* the argument _execute_tool passed to the extractor
    ext_results,     \* what vector_db.search returned inside answer_question
    ext_resp,        \* what the model call inside the extractor produced
    ext_out,         \* outcome of the extractor call: raised, or its record
    exec_out,        \* outcome of _execute_tool: raised, or its record
    llm_calls,       \* model invocations so far, in order
    tool_calls,      \* extractor invocations so far, in order
    response,        \* the mapping returned by process_query
    \* ---- QATool._calculate_confidence ----
    search_results,  \* the result list given to _calculate_confidence
    confidence,      \* the value it returned
    s_pc,            \* "call" before the call, "returned" after it
    \* ---- VectorDB ----
    collection,      \* self.collection: is the handle live, the stored chunks
    before,          \* the collection before the last operation
    op,              \* the last operation: add, search, stats or reset
    op_arg,          \* the batch given to add_documents
    op_fault,        \* the failure of the embedding model or the store in it
    op_ret,          \* what the operation returned
    emptied,         \* no add succeeded since the store was last empty
    \* ---- DocumentIngestion.process_documents ----
    doc_paths,       \* the document paths given to process_documents
    doc_idx,         \* position of the for loop in doc_paths
    all_chunks,      \* the batch built so far
    doc_chunks,      \* for each path handled so far, the chunks it yielded
    add_calls,       \* the add_documents calls made: batch and return value
    g_ret,           \* what process_documents returned
    g_pc,            \* "read", "chunk", "done"
    \* ---- ingestion background tasks and resets on the shared index ----
    task_kind,       \* for each task: "ingest" or "reset"
    task_pc          \* for each task: "scheduled", "running", "done"

cvars == <<text, source, chunk_size, paragraphs, p_idx, current_chunk,
           chunk_counter, chunks, emit_path, last_path, c_pc>>

rvars == <<query, lax, r_pc, route_resp, decision, ext_arg, ext_results,
           ext_resp, ext_out, exec_out, llm_calls, tool_calls, response>>

svars == <<search_results, confidence, s_pc>>

ivars == <<collection, before, op, op_arg, op_fault, op_ret, emptied>>

gvars == <<doc_paths, doc_idx, all_chunks, doc_chunks, add_calls, g_ret, g_pc>>

tvars == <<task_kind, task_pc>>

vars == <<cvars, rvars, svars, ivars, gvars, tvars>>

----------------------------------------------------------------------------
\* Bounds of the model

MaxTextLen == 8
MaxChunkSize == 4

\* config.MAX_CHUNK_CHARS default
MAX_CHUNK_CHARS == 1024

NL == "\n"
SP == " "
Whitespace == {NL, SP}
Alphabet == {"a", NL, SP}
Sources == {"a.txt", "b.txt"}

Texts == UNION {[1..n -> Alphabet] : n \in 0..MaxTextLen}
ChunkSizes == (1..MaxChunkSize) \cup {MAX_CHUNK_CHARS}

Min(a, b) == IF a <= b THEN a ELSE b

----------------------------------------------------------------------------
\* Values of the parsed model output (json.loads): a string, a number, null,
\* a list, or the absence of the key.  One record shape for all of them.

JStr(str) == [t |-> "str", s |-> str, l |-> <<>>]
JNum == [t |-> "num", s |-> "5", l |-> <<>>]
JNull == [t |-> "null", s |-> "", l |-> <<>>]
JList(elems) == [t |-> "list", s |-> "", l |-> elems]
JAbsent == [t |-> "absent", s |-> "", l |-> <<>>]

\* elements of a JSON list
EStr(str) == [t |-> "str", s |-> str]
ENum == [t |-> "num", s |-> "5"]

\* dict.get(key, default)
Get(v, default) == IF v.t = "absent" THEN default ELSE v

\* schema validation of a `str` field: a string passes; a number passes
\* only where the library coerces it (str(5) = "5"); null and lists fail
StrOk(v, coerce) == v.t = "str" \/ (coerce /\ v.t = "num")
StrOf(v) == v.s

\* schema validation of a `List[str]` field
ListOk(v, coerce) ==
    /\ v.t = "list"
    /\ \A i \in 1..Len(v.l) : StrOk(v.l[i], coerce)
ListOf(v) == [i \in 1..Len(v.l) |-> v.l[i].s]

\* outcome of a call that raised / that returned rec
NoRecord == [none |-> TRUE]
Raised == [raised |-> TRUE, rec |-> NoRecord]
Returned(rec) == [raised |-> FALSE, rec |-> rec]

\* the model call did not take place
NoResp == [kind |-> "not_called"]

\* no value yet
Pending == [pending |-> TRUE]

\* try: body  except Exception: handler
TryExcept(body, handler) == IF body.raised THEN handler ELSE body

----------------------------------------------------------------------------
\* The component that is not running

ChunkIdle ==
    /\ text = <<>>
    /\ source = "a.txt"
    /\ chunk_size = MAX_CHUNK_CHARS
    /\ paragraphs = <<>>
    /\ p_idx = 1
    /\ current_chunk = <<>>
    /\ chunk_counter = 0
    /\ chunks = <<>>
    /\ emit_path = <<>>
    /\ last_path = "idle"
    /\ c_pc = "idle"

RouterIdle(pc) ==
    /\ r_pc = pc
    /\ route_resp = NoResp
    /\ decision = Pending
    /\ ext_arg = JAbsent
    /\ ext_results = <<>>
    /\ ext_resp = NoResp
    /\ ext_out = Pending
    /\ exec_out = Pending
    /\ llm_calls = <<>>
    /\ tool_calls = <<>>
    /\ response = Pending

ScoreIdle ==
    /\ search_results = <<>>
    /\ confidence = Pending
    /\ s_pc = "idle"

\* a collection without chunks
NoDocs == [i \in {} |-> <<>>]

IndexIdle ==
    /\ collection = [live |-> TRUE, docs |-> NoDocs]
    /\ before = [live |-> TRUE, docs |-> NoDocs]
    /\ op = "idle"
    /\ op_arg = <<>>
    /\ op_fault = "none"
    /\ op_ret = Pending
    /\ emptied = TRUE

\* no process_documents call is being made
IngestIdle ==
    /\ doc_paths = <<>>
    /\ doc_idx = 1
    /\ all_chunks = <<>>
    /\ doc_chunks = <<>>
    /\ add_calls = <<>>
    /\ g_ret = Pending
    /\ g_pc = "idle"

\* no task has been scheduled
ServeIdle ==
    /\ task_kind = <<>>
    /\ task_pc = <<>>

----------------------------------------------------------------------------
\* String primitives used by chunk_text

RECURSIVE SplitFrom(_, _, _, _)
SplitFrom(t, i, cur, acc) ==
    IF i > Len(t) THEN Append(acc, cur)
    ELSE IF i < Len(t) /\ t[i] = NL /\ t[i + 1] = NL
         THEN SplitFrom(t, i + 2, <<>>, Append(acc, cur))
         ELSE SplitFrom(t, i + 1, Append(cur, t[i]), acc)

\* text.split("\n\n")
SplitBlank(t) == SplitFrom(t, 1, <<>>, <<>>)

RECURSIVE LStrip(_)
LStrip(s) == IF s = <<>> \/ Head(s) \notin Whitespace THEN s
             ELSE LStrip(Tail(s))

RECURSIVE RStrip(_)
RStrip(s) == IF s = <<>> \/ s[Len(s)] \notin Whitespace THEN s
             ELSE RStrip(SubSeq(s, 1, Len(s) - 1))

\* str.strip()
Strip(s) == RStrip(LStrip(s))

\* f"{source}_chunk_{chunk_counter}"
ChunkIdStr(src, n) == src \o "_chunk_" \o ToString(n)

\* DocumentChunk(text=..., source=..., chunk_id=..., metadata=...)
DocumentChunk(txt, src, n) ==
    [text |-> txt, source |-> src, chunk_id |-> ChunkIdStr(src, n),
     metadata |-> [source |-> src, chunk_id |-> n]]

\* faulty variant: the slices are cut one character too long
SlicesOversized(p, size) ==
    [k \in 1..((Len(p) + size) \div (size + 1)) |->
        SubSeq(p, (k - 1) * (size + 1) + 1, Min(k * (size + 1), Len(p)))]

\* [paragraph[i : i + size] for i in range(0, len(paragraph), size)]
Slices(p, size) ==
    [k \in 1..((Len(p) + size - 1) \div size) |->
        SubSeq(p, (k - 1) * size + 1, Min(k * size, Len(p)))]

\* faulty variant: the counter is not advanced inside the slicing loop
SliceChunksSameId(p, size, src, n) ==
    [k \in 1..Len(Slices(p, size)) |->
        DocumentChunk(Slices(p, size)[k], src, n)]

\* the chunks of the hard-split slices, numbered from n
SliceChunks(p, size, src, n) ==
    [k \in 1..Len(Slices(p, size)) |->
        DocumentChunk(Slices(p, size)[k], src, n + k - 1)]

\* faulty variant: the pending buffer is discarded instead of emitted
FlushChunksDropped(cur, src, n) == <<>>

\* the buffer flushed as a chunk when it is non-empty
FlushChunks(cur, src, n) ==
    IF cur # <<>> THEN <<DocumentChunk(Strip(cur), src, n)>> ELSE <<>>

\* faulty variant: the paragraph is appended without the separator
JoinedNoSeparator(cur, p) == cur \o p

\* current_chunk += "\n\n" + paragraph, or current_chunk = paragraph when the
\* buffer is empty
Joined(cur, p) == IF cur # <<>> THEN cur \o <<NL, NL>> \o p ELSE p

\* faulty variant: a paragraph is never joined to a non-empty buffer
OverflowsUnlessEmpty(cur, p, size) == cur # <<>> \/ Len(p) + 2 > size

\* len(current_chunk) + len(paragraph) + 2 > self.chunk_size
Overflows(cur, p, size) == Len(cur) + Len(p) + 2 > size

----------------------------------------------------------------------------
\* DocumentIngestion.chunk_text, one action per branch of the loop body

\* the emitting statement recorded for each chunk of cs
Tags(cs, tag) == [k \in 1..Len(cs) |-> tag]

InitChunk ==
    /\ text \in Texts
    /\ source \in Sources
    /\ chunk_size \in ChunkSizes
    /\ paragraphs = SplitBlank(text)
    /\ p_idx = 1
    /\ current_chunk = <<>>
    /\ chunk_counter = 0
    /\ chunks = <<>>
    /\ emit_path = <<>>
    /\ last_path = "start"
    /\ c_pc = "loop"
    /\ query = "q0"
    /\ lax = FALSE
    /\ RouterIdle("idle")
    /\ IngestIdle
    /\ ServeIdle
    /\ ScoreIdle
    /\ IndexIdle

Paragraph == Strip(paragraphs[p_idx])

InLoop == c_pc = "loop" /\ p_idx <= Len(paragraphs)

\* if not paragraph: continue
ChunkSkipEmpty ==
    /\ InLoop
    /\ Paragraph = <<>>
    /\ p_idx' = p_idx + 1
    /\ last_path' = "skip"
    /\ UNCHANGED <<rvars, svars, ivars, gvars, tvars>>
    /\ UNCHANGED <<text, source, chunk_size, paragraphs, current_chunk,
                   chunk_counter, chunks, emit_path, c_pc>>

\* if len(paragraph) > self.chunk_size: flush the buffer, then hard-split
ChunkHardSplit ==
    /\ InLoop
    /\ Paragraph # <<>>
    /\ Len(Paragraph) > chunk_size
    /\ LET flushed == FlushChunks(current_chunk, source, chunk_counter)
           n == chunk_counter + Len(flushed)
           sliced == SliceChunks(Paragraph, chunk_size, source, n)
       IN /\ chunks' = chunks \o flushed \o sliced
          /\ emit_path' = emit_path \o Tags(flushed, "hard_flush")
                                    \o Tags(sliced, "slice")
          /\ chunk_counter' = n + Len(sliced)
          /\ current_chunk' = <<>>
    /\ p_idx' = p_idx + 1
    /\ last_path' = "hard_split"
    /\ UNCHANGED <<rvars, svars, ivars, gvars, tvars>>
    /\ UNCHANGED <<text, source, chunk_size, paragraphs, c_pc>>

\* elif len(current_chunk) + len(paragraph) + 2 > self.chunk_size:
\* flush the non-empty buffer and start a new one with the paragraph
ChunkFlushStart ==
    /\ InLoop
    /\ Paragraph # <<>>
    /\ Len(Paragraph) <= chunk_size
    /\ Overflows(current_chunk, Paragraph, chunk_size)
    /\ LET flushed == FlushChunks(current_chunk, source, chunk_counter)
       IN /\ chunks' = chunks \o flushed
          /\ emit_path' = emit_path \o Tags(flushed, "overflow_flush")
          /\ chunk_counter' = chunk_counter + Len(flushed)
    /\ current_chunk' = Paragraph
    /\ p_idx' = p_idx + 1
    /\ last_path' = "flush_start"
    /\ UNCHANGED <<rvars, svars, ivars, gvars, tvars>>
    /\ UNCHANGED <<text, source, chunk_size, paragraphs, c_pc>>

\* else: append the paragraph to the buffer
ChunkAppend ==
    /\ InLoop
    /\ Paragraph # <<>>
    /\ Len(Paragraph) <= chunk_size
    /\ ~Overflows(current_chunk, Paragraph, chunk_size)
    /\ current_chunk' = Joined(current_chunk, Paragraph)
    /\ p_idx' = p_idx + 1
    /\ last_path' = "append"
    /\ UNCHANGED <<rvars, svars, ivars, gvars, tvars>>
    /\ UNCHANGED <<text, source, chunk_size, paragraphs, chunk_counter,
                   chunks, emit_path, c_pc>>

\* after the loop: if current_chunk: emit it; return chunks
ChunkFinalFlush ==
    /\ c_pc = "loop"
    /\ p_idx > Len(paragraphs)
    /\ LET flushed == FlushChunks(current_chunk, source, chunk_counter)
       IN /\ chunks' = chunks \o flushed
          /\ emit_path' = emit_path \o Tags(flushed, "final_flush")
    /\ c_pc' = "done"
    /\ last_path' = IF current_chunk # <<>> THEN "final_flush" ELSE "return"
    /\ UNCHANGED <<rvars, svars, ivars, gvars, tvars>>
    /\ UNCHANGED <<text, source, chunk_size, paragraphs, p_idx,
                   current_chunk, chunk_counter>>

NextChunk ==
    \/ ChunkSkipEmpty
    \/ ChunkHardSplit
    \/ ChunkFlushStart
    \/ ChunkAppend
    \/ ChunkFinalFlush

SpecChunk == InitChunk /\ [][NextChunk]_vars

----------------------------------------------------------------------------
\* Records of app/schemas.py and the fixed strings of the tools

\* the fixed "insufficient information" answer of qa_tool.py
INSUFFICIENT_ANSWER == "insufficient information"
\* the fixed "processing error" answer of qa_tool.py and router_agent.py
ERROR_ANSWER == "processing error"

RATIONALE_UNABLE == "Unable to determine appropriate tool, defaulting to QA."
RATIONALE_ROUTING_ERROR == "Error in routing, defaulting to QA."
RATIONALE_NONE == "No rationale provided"
RATIONALE_FALLBACK == "Error occurred, falling back to QA tool."

VALID_TOOLS == {"qa", "issue_summary"}
VALID_SEVERITIES == {"Low", "Medium", "High", "Critical"}

\* QAAnswer(query=..., answer=..., sources=..., confidence=...): raises the
\* validation error when query or answer is not acceptable as a str
QAAnswer(q, a, srcs, conf, coerce) ==
    IF StrOk(q, coerce) /\ StrOk(a, coerce)
    THEN Returned([query |-> StrOf(q), answer |-> StrOf(a),
                   sources |-> srcs, confidence |-> conf])
    ELSE Raised

\* IssueSummary(raw_text=..., reported_issues=..., affected_components=...,
\* severity=..., suggestions=...)
IssueSummary(raw, rep, aff, sev, sug, coerce) ==
    IF /\ StrOk(raw, coerce) /\ StrOk(sev, coerce)
       /\ ListOk(rep, coerce) /\ ListOk(aff, coerce) /\ ListOk(sug, coerce)
    THEN Returned([raw_text |-> StrOf(raw), reported_issues |-> ListOf(rep),
                   affected_components |-> ListOf(aff),
                   severity |-> StrOf(sev), suggestions |-> ListOf(sug)])
    ELSE Raised

\* RouterDecision(tool=..., rationale=..., tool_input=...): tool_input must
\* be a mapping; its values are not validated
RouterDecision(tool, rationale, tool_input, coerce) ==
    IF StrOk(tool, coerce) /\ StrOk(rationale, coerce)
       /\ tool_input.kind = "dict"
    THEN Returned([tool |-> StrOf(tool), rationale |-> StrOf(rationale),
                   tool_input |-> [query |-> tool_input.query,
                                   issue_text |-> tool_input.issue_text]])
    ELSE Raised

\* faulty variant: the default tool_input is left empty
QueryInputEmpty(q) == [kind |-> "dict", has |-> FALSE,
                       query |-> JAbsent, issue_text |-> JAbsent]

\* the mapping {"query": query}
QueryInput(q) == [kind |-> "dict", has |-> FALSE,
                  query |-> JStr(q), issue_text |-> JAbsent]
\* the mapping {}
EmptyInput == [kind |-> "dict", has |-> FALSE,
               query |-> JAbsent, issue_text |-> JAbsent]

----------------------------------------------------------------------------
\* RouterAgent._route_query

\* `key in tool_input` raises TypeError on null and on a number
InRaises(ti) == ti.kind \in {"null", "num"}

\* faulty variant: the presence test always looks for "query"
KeyInQueryOnly(ti, key) ==
    IF ti.kind = "dict" THEN ti.query.t # "absent" ELSE ti.has

\* `key in tool_input`: key lookup on a mapping, substring test on a
\* string, membership on a list
KeyIn(ti, key) ==
    IF ti.kind = "dict"
    THEN (IF key = "query" THEN ti.query ELSE ti.issue_text).t # "absent"
    ELSE ti.has

\* tool_input[key] = query; raises TypeError on anything but a mapping
SetItem(ti, key, q) ==
    IF ti.kind # "dict" THEN Raised
    ELSE Returned(IF key = "query" THEN [ti EXCEPT !.query = JStr(q)]
                  ELSE [ti EXCEPT !.issue_text = JStr(q)])

\* faulty variant: the tool named by the model is taken as it is
ValidateToolAny(tool0) == tool0

\* if tool not in ["qa", "issue_summary"]: tool = "qa"
ValidateTool(tool0) ==
    IF tool0.t = "str" /\ tool0.s \in VALID_TOOLS THEN tool0 ELSE JStr("qa")

\* faulty variant: an invalid tool also replaces the rationale by a fixed string
RationaleOverwritten(resp) ==
    IF ValidateTool(Get(resp.tool, JStr("qa"))) # Get(resp.tool, JStr("qa"))
    THEN JStr("Invalid tool, defaulting to QA.")
    ELSE Get(resp.rationale, JStr(RATIONALE_NONE))

\* rationale = response.get("rationale", "No rationale provided")
RationaleOf(resp) == Get(resp.rationale, JStr(RATIONALE_NONE))

\* the body of the try block once the response is a non-empty mapping
RouteFromMapping(q, resp, coerce) ==
    LET tool == ValidateTool(Get(resp.tool, JStr("qa")))
        ti0 == IF resp.tool_input.kind = "absent" THEN EmptyInput
               ELSE resp.tool_input
        key == IF tool.s = "qa" THEN "query" ELSE "issue_text"
        ti == IF InRaises(ti0) THEN Raised
              ELSE IF KeyIn(ti0, key) THEN Returned(ti0)
              ELSE SetItem(ti0, key, q)
        rationale == RationaleOf(resp)
    IN IF ti.raised THEN Raised
       ELSE RouterDecision(tool, rationale, ti.rec, coerce)

RouteQuery(q, resp, coerce) ==
    LET handler == RouterDecision(JStr("qa"), JStr(RATIONALE_ROUTING_ERROR),
                                  QueryInput(q), coerce)
        body ==
            IF resp.kind = "raise" THEN Raised
            ELSE IF resp.kind \in {"none", "empty"}
            THEN RouterDecision(JStr("qa"), JStr(RATIONALE_UNABLE),
                                QueryInput(q), coerce)
            ELSE IF resp.kind = "nonmap" THEN Raised
            ELSE RouteFromMapping(q, resp, coerce)
    IN TryExcept(body, handler)

----------------------------------------------------------------------------
\* QATool

\* f"{source}:{chunk_id}" for each result, in ranking order
ExtractSources(results) ==
    [i \in 1..Len(results) |->
        results[i].metadata.source \o ":"
            \o ToString(results[i].metadata.chunk_id)]

RECURSIVE SumSimilarity(_)
SumSimilarity(results) ==
    IF results = <<>> THEN 0
    ELSE Head(results).similarity + SumSimilarity(Tail(results))

\* the integer nearest to num / den (den > 0), ties to the even one
RoundHalfEven(num, den) ==
    LET fl == num \div den
        twice == 2 * (num - fl * den)
    IN IF twice < den THEN fl
       ELSE IF twice > den THEN fl + 1
       ELSE IF fl % 2 = 0 THEN fl ELSE fl + 1

\* faulty variant: the scaled mean is capped at 1.0 but has no floor
CalculateConfidenceNoFloor(results) ==
    IF results = <<>> THEN 0
    ELSE LET num == 6 * SumSimilarity(results)
             den == 5 * Len(results)
         IN IF num > 100 * den THEN 100
            ELSE RoundHalfEven(num, den)

\* _calculate_confidence; similarities and confidence in hundredths:
\* round(min(max(avg * 1.2, 0.1), 1.0), 2)
CalculateConfidence(results) ==
    IF results = <<>> THEN 0
    ELSE LET num == 6 * SumSimilarity(results)
             den == 5 * Len(results)
         IN IF num < 10 * den THEN 10
            ELSE IF num > 100 * den THEN 100
            ELSE RoundHalfEven(num, den)

\* faulty variant: the model is asked before the results are looked at
QAInvokesModelAlways(arg, results) == arg.t = "str"

\* answer_question reaches its model call
QAInvokesModel(arg, results) == results # <<>> /\ arg.t = "str"

\* faulty variant: the confidence and the sources of the model's output are
\* used when it supplies them
AnswerQuestionTrustsModel(arg, results, resp, coerce) ==
    IF results = <<>>
    THEN QAAnswer(arg, JStr(INSUFFICIENT_ANSWER), <<>>, 0, coerce)
    ELSE IF arg.t # "str" THEN Raised
    ELSE IF resp.kind = "raise" THEN Raised
    ELSE IF resp.kind \in {"none", "empty"}
    THEN QAAnswer(arg, JStr(INSUFFICIENT_ANSWER), ExtractSources(results),
                  10, coerce)
    ELSE IF resp.kind = "nonmap" THEN Raised
    ELSE QAAnswer(arg, Get(resp.answer, JStr(INSUFFICIENT_ANSWER)),
                  IF resp.sources.t = "list" THEN ListOf(resp.sources)
                  ELSE ExtractSources(results),
                  IF resp.confidence.t = "num" THEN 5
                  ELSE CalculateConfidence(results),
                  coerce)

\* the try block of answer_question when the search returned results and
\* the model call produced resp
AnswerQuestionBody(arg, results, resp, coerce) ==
    IF results = <<>>
    THEN QAAnswer(arg, JStr(INSUFFICIENT_ANSWER), <<>>, 0, coerce)
    \* prompt.replace("{{question}}", query): TypeError
    ELSE IF arg.t # "str" THEN Raised
    ELSE IF resp.kind = "raise" THEN Raised
    ELSE IF resp.kind \in {"none", "empty"}
    THEN QAAnswer(arg, JStr(INSUFFICIENT_ANSWER), ExtractSources(results),
                  10, coerce)
    \* response.get: AttributeError
    ELSE IF resp.kind = "nonmap" THEN Raised
    ELSE QAAnswer(arg, Get(resp.answer, JStr(INSUFFICIENT_ANSWER)),
                  ExtractSources(results), CalculateConfidence(results),
                  coerce)

\* faulty variant: answer_question without its except branch
AnswerQuestionNoCatch(arg, results, resp, coerce) ==
    AnswerQuestionBody(arg, results, resp, coerce)

\* QATool.answer_question(arg)
AnswerQuestion(arg, results, resp, coerce) ==
    TryExcept(AnswerQuestionBody(arg, results, resp, coerce),
              QAAnswer(arg, JStr(ERROR_ANSWER), <<>>, 0, coerce))

----------------------------------------------------------------------------
\* IssueSummaryTool

\* summarize_issue reaches its model call
IssueInvokesModel(arg) == arg.t = "str"

\* faulty variant: the default record does not carry the issue text
DefaultSummaryBlankText(arg, coerce) ==
    IssueSummary(JStr(""), JList(<<>>), JList(<<>>), JStr("Low"), JList(<<>>),
                 coerce)

\* IssueSummary(raw_text=issue_text, reported_issues=[],
\* affected_components=[], severity="Low", suggestions=[])
DefaultSummary(arg, coerce) ==
    IssueSummary(arg, JList(<<>>), JList(<<>>), JStr("Low"), JList(<<>>),
                 coerce)

\* faulty variant: the severity is matched without regard to case
ValidateSeverityAnyCase(sev0) ==
    IF sev0.t = "str" /\ sev0.s \in VALID_SEVERITIES \cup {"medium"}
    THEN sev0 ELSE JStr("Low")

\* if severity not in valid_severities: severity = "Low"
ValidateSeverity(sev0) ==
    IF sev0.t = "str" /\ sev0.s \in VALID_SEVERITIES THEN sev0 ELSE JStr("Low")

\* faulty variant: a list field is read without its default
ListFieldNoDefault(v) == v

\* response.get(<list field>, [])
ListField(v) == Get(v, JList(<<>>))

\* IssueSummaryTool.summarize_issue(arg) when the model call produced resp
SummarizeIssue(arg, resp, coerce) ==
    LET body ==
            \* issue_text[:100] / prompt.replace(...): TypeError
            IF arg.t # "str" THEN Raised
            ELSE IF resp.kind = "raise" THEN Raised
            ELSE IF resp.kind \in {"none", "empty"}
            THEN DefaultSummary(arg, coerce)
            ELSE IF resp.kind = "nonmap" THEN Raised
            ELSE IssueSummary(arg,
                     ListField(resp.reported_issues),
                     ListField(resp.affected_components),
                     ValidateSeverity(Get(resp.severity, JStr("Low"))),
                     ListField(resp.suggestions), coerce)
    IN TryExcept(body, DefaultSummary(arg, coerce))

----------------------------------------------------------------------------
\* RouterAgent._execute_tool and RouterAgent.process_query

\* faulty variant: the argument is always read from the "query" key
ToolArgQueryOnly(d) == Get(d.tool_input.query, JStr(""))

\* decision.tool_input.get(key, "")
ToolArg(d) ==
    IF d.tool = "qa" THEN Get(d.tool_input.query, JStr(""))
    ELSE Get(d.tool_input.issue_text, JStr(""))

\* faulty variant: the except branch replaces an unusable argument by ""
ExecuteHandlerBlankArg(d, coerce) ==
    LET arg == IF d.tool = "qa" THEN Get(d.tool_input.query, JStr(""))
               ELSE Get(d.tool_input.issue_text, JStr(""))
        usable == IF StrOk(arg, coerce) THEN arg ELSE JStr("")
    IN IF d.tool = "qa"
       THEN QAAnswer(usable, JStr(ERROR_ANSWER), <<>>, 0, coerce)
       ELSE IssueSummary(usable, JList(<<>>), JList(<<>>), JStr("Low"),
                         JList(<<>>), coerce)

\* the except branch of _execute_tool: the safe default of the tool
ExecuteHandler(d, coerce) ==
    IF d.tool = "qa"
    THEN QAAnswer(Get(d.tool_input.query, JStr("")), JStr(ERROR_ANSWER),
                  <<>>, 0, coerce)
    ELSE IssueSummary(Get(d.tool_input.issue_text, JStr("")), JList(<<>>),
                      JList(<<>>), JStr("Low"), JList(<<>>), coerce)

\* _execute_tool given the outcome of the extractor it dispatched to
ExecuteTool(d, ext, coerce) ==
    LET body == IF d.tool \in VALID_TOOLS THEN ext ELSE Raised
    IN TryExcept(body, ExecuteHandler(d, coerce))

\* faulty variant: the fallback result carries no query text
FallbackResponseBlankQuery(q, coerce) ==
    LET d == RouterDecision(JStr("qa"), JStr(RATIONALE_FALLBACK),
                            QueryInput(q), coerce)
        r == QAAnswer(JStr(""), JStr(ERROR_ANSWER), <<>>, 0, coerce)
    IN IF d.raised \/ r.raised THEN Raised
       ELSE Returned([decision |-> d.rec, result |-> r.rec])

\* the except branch of process_query
FallbackResponse(q, coerce) ==
    LET d == RouterDecision(JStr("qa"), JStr(RATIONALE_FALLBACK),
                            QueryInput(q), coerce)
        r == QAAnswer(JStr(q), JStr(ERROR_ANSWER), <<>>, 0, coerce)
    IN IF d.raised \/ r.raised THEN Raised
       ELSE Returned([decision |-> d.rec, result |-> r.rec])

\* faulty variant: process_query without its except branch
ProcessQueryNoCatch(q, d, ex, coerce) ==
    IF ex.raised THEN Raised ELSE Returned([decision |-> d, result |-> ex.rec])

\* faulty variant: the except branch keeps the decision of the router and
\* replaces the result only
ProcessQueryKeepsDecision(q, d, ex, coerce) ==
    IF ~ex.raised THEN Returned([decision |-> d, result |-> ex.rec])
    ELSE LET r == QAAnswer(JStr(q), JStr(ERROR_ANSWER), <<>>, 0, coerce)
         IN IF r.raised THEN Raised
            ELSE Returned([decision |-> d, result |-> r.rec])

\* process_query after _route_query returned d and _execute_tool ended in ex
ProcessQuery(q, d, ex, coerce) ==
    LET body == IF ex.raised THEN Raised
                ELSE Returned([decision |-> d, result |-> ex.rec])
    IN TryExcept(body, FallbackResponse(q, coerce))

----------------------------------------------------------------------------
\* Inputs of the pipeline: queries, model outputs, search results

MaxResults == 2

\* config.TOP_K default
TOP_K == 4

Queries == {"q0", "q1"}

\* outcomes of generate_structured_response other than a non-empty mapping:
\* an exception, None, an empty (falsy) JSON value, a non-mapping JSON value
FailureKinds == {"raise", "none", "empty", "nonmap"}

AbsentInput == [kind |-> "absent", has |-> FALSE,
                query |-> JAbsent, issue_text |-> JAbsent]

InputVals == {JAbsent, JStr("q0"), JStr("q1"), JNull, JNum}
IssueTextVals == {JAbsent, JStr("q1"), JNull}

ToolInputs ==
    {AbsentInput}
    \cup [kind : {"dict"}, has : {FALSE}, query : InputVals,
          issue_text : IssueTextVals]
    \cup [kind : {"null", "num"}, has : {FALSE}, query : {JAbsent},
          issue_text : {JAbsent}]
    \cup [kind : {"str", "list"}, has : BOOLEAN, query : {JAbsent},
          issue_text : {JAbsent}]

ToolVals == {JAbsent, JStr("qa"), JStr("issue_summary"), JStr("invalid_tool"),
             JNull, JList(<<>>)}

RationaleVals == {JAbsent, JStr("r1"), JNum, JNull}

RouterResponses ==
    [kind : FailureKinds, tool : {JAbsent}, rationale : {JAbsent},
     tool_input : {AbsentInput}]
    \cup [kind : {"dict"}, tool : ToolVals, rationale : RationaleVals,
          tool_input : ToolInputs]

AnswerVals == {JAbsent, JStr("ans"), JNull, JNum}

\* the "confidence" and "sources" fields of the model's output
ModelConfidenceVals == {JAbsent, JNum}
ModelSourcesVals == {JAbsent, JList(<<EStr("z.txt:9")>>)}

QAResponses ==
    [kind : FailureKinds, answer : {JAbsent}, confidence : {JAbsent},
     sources : {JAbsent}]
    \cup [kind : {"dict"}, answer : AnswerVals,
          confidence : ModelConfidenceVals, sources : ModelSourcesVals]

SeverityVals == {JAbsent, JStr("Low"), JStr("Medium"), JStr("High"),
                 JStr("Critical"), JStr("medium"), JStr("Urgent"), JNull}

ReportedVals == {JAbsent, JList(<<EStr("i1")>>), JNull, JList(<<ENum>>)}
AffectedVals == {JAbsent, JList(<<EStr("c1")>>), JStr("c1")}
SuggestionVals == {JAbsent, JList(<<EStr("s1"), EStr("s2")>>)}

IssueResponses ==
    [kind : FailureKinds, reported_issues : {JAbsent},
     affected_components : {JAbsent}, severity : {JAbsent},
     suggestions : {JAbsent}]
    \cup [kind : {"dict"}, reported_issues : ReportedVals,
          affected_components : AffectedVals, severity : SeverityVals,
          suggestions : SuggestionVals]

\* one formatted result of VectorDB.search; similarity in hundredths
SearchResult(src, n, sim) ==
    [id |-> ChunkIdStr(src, n), metadata |-> [source |-> src, chunk_id |-> n],
     similarity |-> sim]

ResultPool == {SearchResult("a.txt", 0, 130), SearchResult("b.txt", 1, 90),
               SearchResult("b.txt", 0, 4), SearchResult("a.txt", 2, -20)}

\* search returns at most top_k results, ranked by descending similarity
ResultLists ==
    {rs \in UNION {[1..n -> ResultPool] : n \in 0..Min(MaxResults, TOP_K)} :
        \A i \in 1..(Len(rs) - 1) : rs[i].similarity > rs[i + 1].similarity}

----------------------------------------------------------------------------
\* RouterAgent.process_query as a pipeline: route, execute, return

\* faulty variant: a call that got no response or raised is made once more
ModelCallsRetried(stage, resp) ==
    IF resp.kind \in {"none", "raise"} THEN <<stage, stage>> ELSE <<stage>>

\* the model invocations of one generate_structured_response call: one
\* chat_completion, that is one request, whatever comes back
ModelCalls(stage, resp) == <<stage>>

\* qa_tool.answer_question(query)
AnswerQuestionCall(arg) == [fn |-> "answer_question", arg |-> arg]

\* issue_summary_tool.summarize_issue(issue_text)
SummarizeIssueCall(arg) == [fn |-> "summarize_issue", arg |-> arg]

InitRouter ==
    /\ ChunkIdle
    /\ query \in Queries
    /\ lax \in BOOLEAN
    /\ RouterIdle("start")
    /\ IngestIdle
    /\ ServeIdle
    /\ ScoreIdle
    /\ IndexIdle

\* decision = self._route_query(query)
RouteQueryStep ==
    /\ r_pc = "start"
    /\ \E resp \in RouterResponses :
          /\ route_resp' = resp
          /\ decision' = RouteQuery(query, resp, lax).rec
          /\ llm_calls' = llm_calls \o ModelCalls("route", resp)
    /\ r_pc' = "routed"
    /\ UNCHANGED <<cvars, svars, ivars, gvars, tvars>>
    /\ UNCHANGED <<query, lax, ext_arg, ext_results, ext_resp, ext_out,
                   exec_out, tool_calls, response>>

\* result = self._execute_tool(decision), decision.tool == "qa"
ExecuteQA ==
    /\ r_pc = "routed"
    /\ decision.tool = "qa"
    /\ \E results \in ResultLists, resp \in QAResponses :
          LET arg == ToolArg(decision)
              called == QAInvokesModel(arg, results)
              ext == AnswerQuestion(arg, results, resp, lax)
          IN /\ ext_arg' = arg
             /\ ext_results' = results
             /\ ext_resp' = IF called THEN resp ELSE NoResp
             /\ ext_out' = ext
             /\ exec_out' = ExecuteTool(decision, ext, lax)
             /\ llm_calls' = IF called
                             THEN llm_calls \o ModelCalls("qa", resp)
                             ELSE llm_calls
             /\ tool_calls' = Append(tool_calls, AnswerQuestionCall(arg))
    /\ r_pc' = "executed"
    /\ UNCHANGED <<cvars, svars, ivars, gvars, tvars>>
    /\ UNCHANGED <<query, lax, route_resp, decision, response>>

\* result = self._execute_tool(decision), decision.tool == "issue_summary"
ExecuteIssueSummary ==
    /\ r_pc = "routed"
    /\ decision.tool = "issue_summary"
    /\ \E resp \in IssueResponses :
          LET arg == ToolArg(decision)
              called == IssueInvokesModel(arg)
              ext == SummarizeIssue(arg, resp, lax)
          IN /\ ext_arg' = arg
             /\ ext_resp' = IF called THEN resp ELSE NoResp
             /\ ext_out' = ext
             /\ exec_out' = ExecuteTool(decision, ext, lax)
             /\ llm_calls' = IF called
                             THEN llm_calls \o ModelCalls("issue_summary", resp)
                             ELSE llm_calls
             /\ tool_calls' = Append(tool_calls, SummarizeIssueCall(arg))
    /\ ext_results' = <<>>
    /\ r_pc' = "executed"
    /\ UNCHANGED <<cvars, svars, ivars, gvars, tvars>>
    /\ UNCHANGED <<query, lax, route_resp, decision, response>>

\* return {"decision": ..., "result": ...}, or the except branch
ProcessQueryReturn ==
    /\ r_pc = "executed"
    /\ response' = ProcessQuery(query, decision, exec_out, lax)
    /\ r_pc' = "done"
    /\ UNCHANGED <<cvars, svars, ivars, gvars, tvars>>
    /\ UNCHANGED <<query, lax, route_resp, decision, ext_arg, ext_results,
                   ext_resp, ext_out, exec_out, llm_calls, tool_calls>>

NextRouter ==
    \/ RouteQueryStep
    \/ ExecuteQA
    \/ ExecuteIssueSummary
    \/ ProcessQueryReturn

SpecRouter == InitRouter /\ [][NextRouter]_vars

----------------------------------------------------------------------------
\* QATool._calculate_confidence called on its own, on any list of results

MaxScored == 3

\* similarities in hundredths: negative, zero, small, mid-range, the three of
\* the high-similarity test, above 1
SimilarityVals == {-20, 0, 8, 35, 80, 85, 90, 130}

\* a result as far as _calculate_confidence reads it
Scored(sim) == [similarity |-> sim]

ScoredLists ==
    UNION {[1..n -> {Scored(sim) : sim \in SimilarityVals}] :
              n \in 0..MaxScored}

InitScore ==
    /\ ChunkIdle
    /\ query = "q0"
    /\ lax = FALSE
    /\ RouterIdle("idle")
    /\ IngestIdle
    /\ ServeIdle
    /\ IndexIdle
    /\ search_results \in ScoredLists
    /\ confidence = Pending
    /\ s_pc = "call"

\* 1.2 times the mean lies exactly between two hundredths (this takes four
\* results or more)
RoundingTie(results) ==
    /\ results # <<>>
    /\ LET num == 6 * SumSimilarity(results)
           den == 5 * Len(results)
       IN /\ num >= 10 * den
          /\ num <= 100 * den
          /\ 2 * (num % den) = den

\* the values _calculate_confidence can return: round(x, 2) rounds the
\* binary value of the float x, so at a tie either hundredth can come out
ConfidenceOutcomes(results) ==
    IF RoundingTie(results)
    THEN LET fl == (6 * SumSimilarity(results)) \div (5 * Len(results))
         IN {fl, fl + 1}
    ELSE {CalculateConfidence(results)}

\* confidence = self._calculate_confidence(search_results)
CalculateConfidenceCall ==
    /\ s_pc = "call"
    /\ confidence' \in ConfidenceOutcomes(search_results)
    /\ s_pc' = "returned"
    /\ UNCHANGED search_results
    /\ UNCHANGED <<cvars, rvars, ivars, gvars, tvars>>

NextScore == CalculateConfidenceCall

SpecScore == InitScore /\ [][NextScore]_vars

----------------------------------------------------------------------------
\* VectorDB: the collection "internal_docs" of the persistent store and the
\* four operations on it

MaxBatch == 2

\* the chunks that can be handed to add_documents: three ids, each with
\* two possible texts (the document changed between two ingestions)
IndexTexts == {<<"a">>, <<"a", "a">>}
IndexKeys == {<<"a.txt", 0>>, <<"a.txt", 1>>, <<"b.txt", 0>>}

\* {"id": chunk.chunk_id, "text": chunk.text, "metadata": chunk.metadata}
BatchChunk(txt, src, n) ==
    [id |-> ChunkIdStr(src, n), text |-> txt,
     metadata |-> [source |-> src, chunk_id |-> n]]

ChunkPool == {BatchChunk(txt, k[1], k[2]) : txt \in IndexTexts, k \in IndexKeys}

Batches == UNION {[1..n -> ChunkPool] : n \in 0..MaxBatch}

\* ids = [chunk["id"] for chunk in chunks]
IdsOf(batch) == {batch[k].id : k \in 1..Len(batch)}

\* the store rejects a batch in which two records share an id
DistinctIds(batch) ==
    \A i, j \in 1..Len(batch) : batch[i].id = batch[j].id => i = j

\* the document and metadata stored for the record of the batch with id i
Entry(batch, i) ==
    LET k == CHOOSE k \in 1..Len(batch) : batch[k].id = i
    IN [text |-> batch[k].text, metadata |-> batch[k].metadata]

\* the contents a collection can have
StoredDocs ==
    {[i \in {c.id : c \in S} |->
         LET c == CHOOSE c \in S : c.id = i
         IN [text |-> c.text, metadata |-> c.metadata]] :
        S \in {S \in SUBSET ChunkPool :
                  \A c1, c2 \in S : c1.id = c2.id => c1 = c2}}

\* self.collection.add(embeddings=..., documents=..., metadatas=..., ids=...)
\* is one call of the store: it raises without writing (a stale handle, a
\* store failure, a repeated id in the batch) or writes the records whose id
\* is new and ignores those whose id the collection already holds
CollectionAdd(coll, batch, fault) ==
    IF ~coll.live \/ fault = "store" \/ ~DistinctIds(batch)
    THEN [raised |-> TRUE, coll |-> coll]
    ELSE [raised |-> FALSE,
          coll |-> [coll EXCEPT !.docs =
                       [i \in DOMAIN coll.docs \cup IdsOf(batch) |->
                           IF i \in DOMAIN coll.docs THEN coll.docs[i]
                           ELSE Entry(batch, i)]]]

\* faulty variant: the chunks are added one call at a time, so a store
\* failure after the first call leaves the first chunk in the collection
AddDocumentsPerChunk(coll, batch, fault) ==
    IF batch = <<>> THEN [ret |-> FALSE, coll |-> coll]
    ELSE IF fault = "encode" THEN [ret |-> FALSE, coll |-> coll]
    ELSE IF fault = "store"
    THEN [ret |-> FALSE, coll |-> CollectionAdd(coll, <<batch[1]>>, "none").coll]
    ELSE LET added == CollectionAdd(coll, batch, fault)
         IN [ret |-> ~added.raised, coll |-> added.coll]

\* VectorDB.add_documents(chunks): the returned boolean and the collection
AddDocuments(coll, batch, fault) ==
    IF batch = <<>> THEN [ret |-> FALSE, coll |-> coll]
    \* self.embedding_model.encode(texts, ...) raised
    ELSE IF fault = "encode" THEN [ret |-> FALSE, coll |-> coll]
    ELSE LET added == CollectionAdd(coll, batch, fault)
         IN [ret |-> ~added.raised, coll |-> added.coll]

\* distances reported by the store, in hundredths
DistanceVals == {10, 60}

\* top_k as given by the caller
TopKs == {1, TOP_K}

\* the rows of collection.query(n_results=top_k): the nearest stored
\* records, at most top_k of them, by ascending distance
Hits(coll, top_k) ==
    LET n == Min(top_k, Cardinality(DOMAIN coll.docs))
    IN {h \in [1..n -> [id : DOMAIN coll.docs, distance : DistanceVals]] :
           /\ \A i, j \in 1..n : h[i].id = h[j].id => i = j
           /\ \A i \in 1..(n - 1) : h[i].distance <= h[i + 1].distance}

\* VectorDB.search(query, top_k) when the store answered with the rows hits
Search(coll, hits, fault) ==
    IF fault # "none" \/ ~coll.live THEN <<>>
    ELSE [k \in 1..Len(hits) |->
             [id |-> hits[k].id,
              text |-> coll.docs[hits[k].id].text,
              metadata |-> coll.docs[hits[k].id].metadata,
              distance |-> hits[k].distance,
              similarity |-> 100 - hits[k].distance]]

\* the empty mapping {}
NoStats == <<>>

\* VectorDB.get_collection_stats()
GetCollectionStats(coll, fault) ==
    IF fault # "none" \/ ~coll.live THEN NoStats
    ELSE [total_documents |-> Cardinality(DOMAIN coll.docs),
          collection_name |-> "internal_docs",
          embedding_model |-> "EMBEDDING_MODEL"]

\* faulty variant: the collection is fetched again without being deleted
ResetCollectionNoDelete(coll, fault) ==
    IF ~coll.live \/ fault = "delete" THEN [ret |-> FALSE, coll |-> coll]
    ELSE IF fault = "create"
    THEN [ret |-> FALSE, coll |-> [live |-> FALSE, docs |-> NoDocs]]
    ELSE [ret |-> TRUE, coll |-> coll]

\* VectorDB.reset_collection(): delete_collection, then
\* get_or_create_collection; a failure of the second leaves self.collection
\* referring to the deleted collection
ResetCollection(coll, fault) ==
    IF ~coll.live \/ fault = "delete" THEN [ret |-> FALSE, coll |-> coll]
    ELSE IF fault = "create"
    THEN [ret |-> FALSE, coll |-> [live |-> FALSE, docs |-> NoDocs]]
    ELSE [ret |-> TRUE, coll |-> [live |-> TRUE, docs |-> NoDocs]]

\* VectorDB.__init__: the collection is opened, or created when the
\* persistent store does not hold it yet
InitIndex ==
    /\ ChunkIdle
    /\ query = "q0"
    /\ lax = FALSE
    /\ RouterIdle("idle")
    /\ IngestIdle
    /\ ServeIdle
    /\ ScoreIdle
    /\ \E docs \in StoredDocs :
          /\ collection = [live |-> TRUE, docs |-> docs]
          /\ before = [live |-> TRUE, docs |-> docs]
          /\ emptied = (DOMAIN docs = {})
    /\ op = "init"
    /\ op_arg = <<>>
    /\ op_fault = "none"
    /\ op_ret = Pending

AddDocumentsStep ==
    /\ \E batch \in Batches, fault \in {"none", "encode", "store"} :
          LET r == AddDocuments(collection, batch, fault)
          IN /\ collection' = r.coll
             /\ op_arg' = batch
             /\ op_fault' = fault
             /\ op_ret' = r.ret
             /\ emptied' = (emptied /\ ~r.ret)
    /\ before' = collection
    /\ op' = "add"
    /\ UNCHANGED <<cvars, rvars, svars, gvars, tvars>>

SearchStep ==
    /\ \E top_k \in TopKs, fault \in {"none", "encode", "store"} :
          \E hits \in Hits(collection, top_k) :
             /\ op_ret' = Search(collection, hits, fault)
             /\ op_fault' = fault
    /\ before' = collection
    /\ op' = "search"
    /\ op_arg' = <<>>
    /\ UNCHANGED <<collection, emptied>>
    /\ UNCHANGED <<cvars, rvars, svars, gvars, tvars>>

StatsStep ==
    /\ \E fault \in {"none", "store"} :
          /\ op_ret' = GetCollectionStats(collection, fault)
          /\ op_fault' = fault
    /\ before' = collection
    /\ op' = "stats"
    /\ op_arg' = <<>>
    /\ UNCHANGED <<collection, emptied>>
    /\ UNCHANGED <<cvars, rvars, svars, gvars, tvars>>

ResetStep ==
    /\ \E fault \in {"none", "delete", "create"} :
          LET r == ResetCollection(collection, fault)
          IN /\ collection' = r.coll
             /\ op_fault' = fault
             /\ op_ret' = r.ret
             /\ emptied' = (emptied \/ r.ret)
    /\ before' = collection
    /\ op' = "reset"
    /\ op_arg' = <<>>
    /\ UNCHANGED <<cvars, rvars, svars, gvars, tvars>>

NextIndex ==
    \/ AddDocumentsStep
    \/ SearchStep
    \/ StatsStep
    \/ ResetStep

SpecIndex == InitIndex /\ [][NextIndex]_vars

----------------------------------------------------------------------------
\* Properties of chunk_text (checked under SpecChunk)

\* C3: every chunk produced by chunk_text is at most the maximum chunk size
\* long, whether it was accumulated from paragraphs or cut from a long one.
ChunkSizeBound ==
    \A i \in 1..Len(chunks) : Len(chunks[i].text) <= chunk_size

\* a long paragraph was cut into full-size slices and a shorter remainder
ChunkSizeBoundWitness ==
    /\ c_pc = "done"
    /\ chunk_size >= 2
    /\ Len(chunks) >= 3
    /\ \E i, j \in 1..Len(chunks) :
          /\ emit_path[i] = "slice" /\ Len(chunks[i].text) = chunk_size
          /\ emit_path[j] = "slice" /\ Len(chunks[j].text) < chunk_size

\* C4: the i-th emitted chunk (from 0) has id "{source}_chunk_{i}" and
\* metadata {source, chunk_id: i}; the counter equals the number of chunks
\* emitted so far on every emission path, so ids have no gaps or repeats.
ChunkIdsSequential ==
    /\ \A i \in 1..Len(chunks) :
          /\ chunks[i].chunk_id = source \o "_chunk_" \o ToString(i - 1)
          /\ chunks[i].metadata = [source |-> source, chunk_id |-> i - 1]
          /\ chunks[i].source = source
    /\ c_pc = "loop" => chunk_counter = Len(chunks)

\* chunks were emitted by a buffer flush, by slicing and by the final flush
ChunkIdsSequentialWitness ==
    /\ c_pc = "done"
    /\ Len(chunks) >= 4
    /\ {"hard_flush", "slice", "final_flush"}
           \subseteq {emit_path[i] : i \in 1..Len(emit_path)}

\* the non-empty stripped paragraphs of the text, in order
NonEmptyParagraphs ==
    SelectSeq([i \in 1..Len(paragraphs) |-> Strip(paragraphs[i])],
              LAMBDA p : p # <<>>)

\* three short paragraphs chunked with the default maximum size
ThreeShortParagraphs ==
    /\ c_pc = "done"
    /\ chunk_size = MAX_CHUNK_CHARS
    /\ Len(NonEmptyParagraphs) = 3

\* C5 as stated: three short paragraphs under the default size give exactly
\* three chunks, one paragraph each, with chunk ids 0, 1, 2.
ThreeParagraphsThreeChunks ==
    ThreeShortParagraphs =>
        /\ Len(chunks) = 3
        /\ \A i \in 1..3 :
              /\ chunks[i].text = NonEmptyParagraphs[i]
              /\ chunks[i].metadata.chunk_id = i - 1

\* C5 amended: three short paragraphs under the default size are
\* accumulated into exactly one chunk, the paragraphs joined by blank lines,
\* with chunk id 0.
ThreeParagraphsOneChunk ==
    ThreeShortParagraphs =>
        /\ Len(chunks) = 1
        /\ chunks[1].text = NonEmptyParagraphs[1] \o <<NL, NL>>
                              \o NonEmptyParagraphs[2] \o <<NL, NL>>
                              \o NonEmptyParagraphs[3]
        /\ chunks[1].metadata.chunk_id = 0

ThreeParagraphsOneChunkWitness ==
    /\ ThreeShortParagraphs
    /\ Len(chunks) = 1
    /\ Len(chunks[1].text) = Len(text)

----------------------------------------------------------------------------
\* Properties of the router and the extractors (checked under SpecRouter)

Routed == r_pc \in {"routed", "executed", "done"}
Executed == r_pc \in {"executed", "done"}
Done == r_pc = "done"

IsRouterDecision(d) ==
    /\ DOMAIN d = {"tool", "rationale", "tool_input"}
    /\ d.tool \in VALID_TOOLS
    /\ DOMAIN d.tool_input = {"query", "issue_text"}

IsQAAnswer(r) ==
    /\ DOMAIN r = {"query", "answer", "sources", "confidence"}
    /\ DOMAIN r.sources = 1..Len(r.sources)
    /\ r.confidence \in 0..100

IsIssueSummary(r) ==
    /\ DOMAIN r = {"raw_text", "reported_issues", "affected_components",
                   "severity", "suggestions"}
    /\ r.severity \in VALID_SEVERITIES

\* the mapping {"query": <original query>} as a decision's tool_input
OriginalQueryInput == [query |-> JStr(query), issue_text |-> JAbsent]

\* C1: process_query never raises; whatever the model call does at the
\* routing step or inside the extractor and whatever the search returns, it
\* returns a mapping with exactly the keys decision and result, a well-formed
\* decision and a fully-formed QAAnswer or IssueSummary.
ProcessQueryNeverRaises ==
    Done =>
        /\ ~response.raised
        /\ DOMAIN response.rec = {"decision", "result"}
        /\ IsRouterDecision(response.rec.decision)
        /\ \/ IsQAAnswer(response.rec.result)
           \/ IsIssueSummary(response.rec.result)

\* the model call raised at the routing step and again inside the extractor
ProcessQueryNeverRaisesWitness ==
    /\ Done
    /\ route_resp.kind = "raise"
    /\ ext_resp.kind = "raise"
    /\ ~response.raised
    /\ response.rec.result.answer = ERROR_ANSWER

\* C2: answer_question and summarize_issue, called with a string argument,
\* never propagate an exception: every failure of the search, the model call
\* or the parsing is turned into a QAAnswer, respectively an IssueSummary.
ExtractorsNeverRaise ==
    (Executed /\ ext_arg.t = "str") =>
        /\ ~ext_out.raised
        /\ decision.tool = "qa" => IsQAAnswer(ext_out.rec)
        /\ decision.tool = "issue_summary" => IsIssueSummary(ext_out.rec)

\* the model returned a value that is not a mapping to summarize_issue
ExtractorsNeverRaiseWitness ==
    /\ Executed
    /\ ext_arg.t = "str"
    /\ decision.tool = "issue_summary"
    /\ ext_resp.kind = "nonmap"
    /\ ~ext_out.raised
    /\ ext_out.rec.raw_text = ext_arg.s

\* the model's routing output names no tool or a tool outside the closed set
InvalidToolOutput ==
    /\ route_resp.kind = "dict"
    /\ ~(route_resp.tool.t = "str" /\ route_resp.tool.s \in VALID_TOOLS)

\* C6: a model output whose tool is missing or not exactly qa or
\* issue_summary yields tool = qa; every decision returned by _route_query
\* or placed in a process_query result has its tool in {qa, issue_summary}.
RouterToolClosedSet ==
    /\ Routed => /\ decision.tool \in VALID_TOOLS
                 /\ InvalidToolOutput => decision.tool = "qa"
    /\ (Done /\ ~response.raised) =>
           response.rec.decision.tool \in VALID_TOOLS

\* the model named an unknown tool and the decision was built from its output
RouterToolClosedSetWitness ==
    /\ Routed
    /\ route_resp.kind = "dict"
    /\ route_resp.tool = JStr("invalid_tool")
    /\ decision.tool = "qa"
    /\ decision.rationale = "r1"

FixedRationales == {RATIONALE_UNABLE, RATIONALE_ROUTING_ERROR, RATIONALE_NONE,
                    RATIONALE_FALLBACK}

\* C7 as stated: with a tool outside the closed set the decision has tool =
\* qa, a fixed rationale instead of the model's, and tool_input equal to
\* {query: <original query>} instead of the model's tool_input.
InvalidToolOverwritesDecision ==
    (Routed /\ InvalidToolOutput) =>
        /\ decision.tool = "qa"
        /\ decision.rationale \in FixedRationales
        /\ decision.tool_input = OriginalQueryInput

\* a decision can be built from the mapping the model returned
MappingUsable ==
    /\ route_resp.tool_input.kind \in {"absent", "dict"}
    /\ StrOk(Get(route_resp.rationale, JStr(RATIONALE_NONE)), lax)

\* C7 amended: with a tool outside the closed set the decision has tool =
\* qa, keeps the model's rationale ("No rationale provided" when missing)
\* and keeps the model's tool_input, query being added with the original
\* query only when the model's tool_input has none; only when no decision
\* can be built from the output (tool_input not a mapping, rationale not a
\* string) it is the routing-error default with {query: <original query>}.
InvalidToolKeepsModelFields ==
    (Routed /\ InvalidToolOutput) =>
        /\ decision.tool = "qa"
        /\ IF MappingUsable
           THEN /\ decision.rationale =
                      (IF route_resp.rationale.t = "absent"
                       THEN RATIONALE_NONE ELSE route_resp.rationale.s)
                /\ decision.tool_input.query =
                      (IF route_resp.tool_input.query.t = "absent"
                       THEN JStr(query) ELSE route_resp.tool_input.query)
                /\ decision.tool_input.issue_text =
                      route_resp.tool_input.issue_text
           ELSE /\ decision.rationale = RATIONALE_ROUTING_ERROR
                /\ decision.tool_input = OriginalQueryInput

\* an unknown tool came with a rationale and a query of the model's own
InvalidToolKeepsModelFieldsWitness ==
    /\ Routed
    /\ InvalidToolOutput
    /\ route_resp.rationale = JStr("r1")
    /\ route_resp.tool_input.kind = "dict"
    /\ route_resp.tool_input.query.t = "str"
    /\ route_resp.tool_input.query # JStr(query)
    /\ decision.rationale = "r1"
    /\ decision.tool_input.query = route_resp.tool_input.query

\* C8: when the routing model call fails or returns nothing parseable the
\* decision is tool = qa, tool_input = {query: <original query>} and one of
\* the fixed "... defaulting to QA." rationales, which differs from the
\* rationales of the other paths and from the model-supplied ones.
RouteFailureDefaultsToQA ==
    (Routed /\ route_resp.kind \in FailureKinds) =>
        /\ decision.tool = "qa"
        /\ decision.tool_input = OriginalQueryInput
        /\ decision.rationale \in {RATIONALE_UNABLE, RATIONALE_ROUTING_ERROR}
        /\ decision.rationale \notin
               {RATIONALE_NONE, RATIONALE_FALLBACK}
                   \cup {StrOf(v) : v \in RationaleVals \ {JAbsent}}

\* the model call returned nothing and the routing fell back to qa
RouteFailureDefaultsToQAWitness ==
    /\ Routed
    /\ route_resp.kind = "none"
    /\ decision.tool = "qa"
    /\ decision.rationale = RATIONALE_UNABLE

\* the value of the key the decision's tool requires
RequiredKey(d) ==
    IF d.tool = "qa" THEN d.tool_input.query ELSE d.tool_input.issue_text

\* the value the model supplied under the key of that tool, if any
ModelKey(tool) ==
    IF route_resp.kind # "dict" THEN JAbsent
    ELSE IF tool = "qa" THEN route_resp.tool_input.query
    ELSE route_resp.tool_input.issue_text

\* C9 as stated: the decision's tool_input carries the key of its tool; the
\* value is the original query when the model omitted the key and the
\* model's value, unchanged, when the model supplied it.
ToolInputKeepsModelValue ==
    Routed =>
        /\ RequiredKey(decision).t # "absent"
        /\ RequiredKey(decision) =
               (IF ModelKey(decision.tool).t # "absent"
                THEN ModelKey(decision.tool) ELSE JStr(query))

\* C9 amended: the decision's tool_input carries the key of its tool; the
\* value is the model's value, unchanged, when the model supplied the key
\* and a decision could be built from its output (its rationale is usable
\* as a string), and the original query in every other case.
ToolInputNormalized ==
    Routed =>
        /\ RequiredKey(decision).t # "absent"
        /\ RequiredKey(decision) =
               (IF /\ ModelKey(decision.tool).t # "absent"
                   /\ StrOk(Get(route_resp.rationale, JStr(RATIONALE_NONE)),
                            lax)
                THEN ModelKey(decision.tool) ELSE JStr(query))

\* issue_summary was chosen without issue_text: it is backfilled with the
\* original query and the query the model did supply is kept
ToolInputNormalizedWitness ==
    /\ Routed
    /\ route_resp.kind = "dict"
    /\ decision.tool = "issue_summary"
    /\ route_resp.tool_input.kind = "dict"
    /\ route_resp.tool_input.issue_text.t = "absent"
    /\ route_resp.tool_input.query.t = "str"
    /\ decision.tool_input.issue_text = JStr(query)
    /\ decision.tool_input.query = route_resp.tool_input.query

\* C10: if invoking the chosen extractor raises, for either tool,
\* process_query returns the full fallback response: decision qa with the
\* fixed "Error occurred" rationale and {query: <original query>}, result
\* the fixed error answer with confidence 0.0 and no sources.
ExtractorRaiseFullFallback ==
    (Done /\ ext_out.raised) =>
        response = Returned(
            [decision |-> [tool |-> "qa", rationale |-> RATIONALE_FALLBACK,
                           tool_input |-> OriginalQueryInput],
             result |-> [query |-> query, answer |-> ERROR_ANSWER,
                         sources |-> <<>>, confidence |-> 0]])

\* summarize_issue raised on an argument that is not a string
ExtractorRaiseFullFallbackWitness ==
    /\ Done
    /\ ext_out.raised
    /\ decision.tool = "issue_summary"
    /\ ~response.raised
    /\ response.rec.decision.tool = "qa"
    /\ response.rec.decision.rationale = RATIONALE_FALLBACK

\* answer_question ran on a string query inside _execute_tool
QAExecuted == Executed /\ decision.tool = "qa" /\ ext_arg.t = "str"

\* C11: when the search returns zero results answer_question returns the
\* fixed "insufficient information" answer with empty sources and confidence
\* 0.0, and the language model is not invoked during that call.
NoResultsShortCircuit ==
    (QAExecuted /\ ext_results = <<>>) =>
        /\ ext_out = Returned([query |-> ext_arg.s,
                               answer |-> INSUFFICIENT_ANSWER,
                               sources |-> <<>>, confidence |-> 0])
        /\ ext_resp = NoResp
        /\ llm_calls = <<"route">>

\* the search found nothing and the only model call was the routing one
NoResultsShortCircuitWitness ==
    /\ QAExecuted
    /\ ext_results = <<>>
    /\ ~ext_out.raised
    /\ ext_out.rec.answer = INSUFFICIENT_ANSWER
    /\ ext_out.rec.confidence = 0
    /\ llm_calls = <<"route">>

\* C12: when the search returned at least one result and the model call
\* fails or returns nothing parseable (no response, an exception, unparsable
\* text, parsed output that is not a usable mapping), answer_question
\* returns the fixed "insufficient information" answer, the sources of the
\* retrieved results in ranking order and confidence exactly 0.1.
ModelFailureLowConfidence ==
    (QAExecuted /\ ext_results # <<>> /\ ext_resp.kind \in FailureKinds) =>
        ext_out = Returned([query |-> ext_arg.s,
                            answer |-> INSUFFICIENT_ANSWER,
                            sources |-> ExtractSources(ext_results),
                            confidence |-> 10])

\* the success path: results were retrieved and the model returned a mapping
\* with a text answer
QASuccess ==
    /\ QAExecuted
    /\ ext_results # <<>>
    /\ ext_resp.kind = "dict"
    /\ ext_resp.answer.t = "str"

\* the model outputs of the success path
SuccessResponses == {r \in QAResponses : r.kind = "dict" /\ r.answer.t = "str"}

\* C13: on the success path the returned confidence and sources depend only
\* on the retrieved results: they are calculate_confidence(results) and the
\* "source:chunk_id" labels in ranking order, and every other model output
\* (other confidence, sources or answer fields) with the same results gives
\* the same confidence and sources; the answer text is the model's.
ConfidenceAndSourcesFromRetrieval ==
    QASuccess =>
        /\ ~ext_out.raised
        /\ ext_out.rec.confidence = CalculateConfidence(ext_results)
        /\ Len(ext_out.rec.sources) = Len(ext_results)
        /\ \A i \in 1..Len(ext_results) :
              ext_out.rec.sources[i] =
                  ext_results[i].metadata.source \o ":"
                      \o ToString(ext_results[i].metadata.chunk_id)
        /\ ext_out.rec.answer = ext_resp.answer.s
        /\ \A other \in SuccessResponses :
              LET run == AnswerQuestion(ext_arg, ext_results, other, lax)
              IN /\ ~run.raised
                 /\ run.rec.confidence = ext_out.rec.confidence
                 /\ run.rec.sources = ext_out.rec.sources

\* the model supplied a confidence and sources of its own next to its answer
ConfidenceAndSourcesFromRetrievalWitness ==
    /\ QASuccess
    /\ Len(ext_results) = 2
    /\ ext_resp.confidence = JNum
    /\ ext_resp.sources.t = "list"
    /\ ext_out.rec.answer = "ans"
    /\ ext_out.rec.confidence = CalculateConfidence(ext_results)
    /\ ext_out.rec.sources = ExtractSources(ext_results)

\* C15: whenever the retrieval step of answer_question produced at least one
\* result the returned QAAnswer has confidence >= 0.1; confidence 0.0 is
\* returned only when nothing was retrieved.
RetrievedImpliesConfidenceFloor ==
    (QAExecuted /\ ~ext_out.raised) =>
        /\ ext_results # <<>> => ext_out.rec.confidence >= 10
        /\ ext_out.rec.confidence = 0 => ext_results = <<>>

----------------------------------------------------------------------------
\* Properties of _calculate_confidence (checked under SpecScore)

\* 1.2 times the mean similarity of the scored list, clamped to [0.1, 1.0],
\* as a numerator over the denominator 5 * Len (in hundredths)
ClampedNumerator ==
    LET num == 6 * SumSimilarity(search_results)
        den == 5 * Len(search_results)
    IN IF num < 10 * den THEN 10 * den
       ELSE IF num > 100 * den THEN 100 * den ELSE num

\* the list of the high-similarity scenario: 0.9, 0.8, 0.85
HighSimilarity == <<Scored(90), Scored(80), Scored(85)>>

\* C14: calculate_confidence returns 0.0 for an empty list; for every
\* non-empty list (negative similarities and similarities above 1 included)
\* it returns c with 0.1 <= c <= 1.0, c being 1.2 times the mean similarity,
\* clamped to [0.1, 1.0] and rounded to 2 decimals (a nearest hundredth);
\* the similarities 0.9, 0.8, 0.85 give 1.0.
ConfidenceBounds ==
    s_pc = "returned" =>
        /\ search_results = <<>> => confidence = 0
        /\ search_results # <<>> =>
              LET den == 5 * Len(search_results)
                  diff == confidence * den - ClampedNumerator
              IN /\ confidence >= 10
                 /\ confidence <= 100
                 /\ 2 * diff <= den
                 /\ 2 * diff >= -den
        /\ search_results = HighSimilarity => confidence = 100

\* a list whose scaled mean is below the floor: the floor is returned
ConfidenceBoundsWitness ==
    /\ s_pc = "returned"
    /\ Len(search_results) = 3
    /\ \E i \in 1..3 : search_results[i].similarity < 0
    /\ \E i \in 1..3 : search_results[i].similarity > 0
    /\ SumSimilarity(search_results) < 25
    /\ confidence = 10

----------------------------------------------------------------------------
\* Properties of summarize_issue (checked under SpecRouter)

\* summarize_issue ran on a string issue text inside _execute_tool
IssueExecuted ==
    Executed /\ decision.tool = "issue_summary" /\ ext_arg.t = "str"

\* a list field of the model's output is absent or a list of strings
ListFieldUsable(v) == v.t = "absent" \/ ListOk(v, lax)

\* the list fields of the model's output can all be put into the record
ListsWellFormed ==
    /\ ListFieldUsable(ext_resp.reported_issues)
    /\ ListFieldUsable(ext_resp.affected_components)
    /\ ListFieldUsable(ext_resp.suggestions)

\* the model's output names a severity of the closed set, exactly
SeverityValid ==
    ext_resp.severity.t = "str" /\ ext_resp.severity.s \in VALID_SEVERITIES

\* C16: every IssueSummary returned by summarize_issue has its severity in
\* {Low, Medium, High, Critical}; a model severity that is missing or not an
\* exact, case-sensitive member of the set gives Low, and a valid model
\* severity is returned unchanged when the rest of the output is well-formed.
SeverityClosedSet ==
    IssueExecuted =>
        /\ ~ext_out.raised
        /\ ext_out.rec.severity \in {"Low", "Medium", "High", "Critical"}
        /\ (ext_resp.kind = "dict" /\ ~SeverityValid) =>
               ext_out.rec.severity = "Low"
        /\ (ext_resp.kind = "dict" /\ SeverityValid /\ ListsWellFormed) =>
               ext_out.rec.severity = ext_resp.severity.s

\* a severity in the wrong case was replaced although the lists were kept
SeverityClosedSetWitness ==
    /\ IssueExecuted
    /\ ext_resp.kind = "dict"
    /\ ext_resp.severity = JStr("medium")
    /\ ext_resp.reported_issues.t = "list"
    /\ ext_out.rec.severity = "Low"
    /\ ext_out.rec.reported_issues = <<"i1">>

\* C17: when the model call of summarize_issue fails (no response, or an
\* exception) the returned IssueSummary has raw_text equal to the input
\* issue text, empty reported_issues, affected_components and suggestions,
\* and severity Low.
ModelFailureDefaultSummary ==
    (IssueExecuted /\ ext_resp.kind \in {"none", "raise"}) =>
        ext_out = Returned([raw_text |-> ext_arg.s,
                            reported_issues |-> <<>>,
                            affected_components |-> <<>>,
                            severity |-> "Low",
                            suggestions |-> <<>>])

\* the model call raised and the default record carries the issue text
ModelFailureDefaultSummaryWitness ==
    /\ IssueExecuted
    /\ ext_resp.kind = "raise"
    /\ ext_arg.s # ""
    /\ ~ext_out.raised
    /\ ext_out.rec.raw_text = ext_arg.s
    /\ ext_out.rec.severity = "Low"

\* the value of a list field of the record, given the model's field
KeptList(field, v) ==
    /\ DOMAIN field = 1..Len(field)
    /\ IF v.t = "absent" THEN field = <<>>
       ELSE /\ Len(field) = Len(v.l)
            /\ \A i \in 1..Len(field) : field[i] = v.l[i].s

----------------------------------------------------------------------------
\* Properties of the vector index (checked under SpecIndex)

\* the chunk c of a batch is held by the collection, as given
Inserted(c) ==
    /\ c.id \in DOMAIN collection.docs
    /\ collection.docs[c.id] = [text |-> c.text, metadata |-> c.metadata]

\* C19 as stated: add_documents on an empty batch returns false without
\* raising and leaves the index unchanged; on a non-empty batch it either
\* inserts every chunk of the batch and returns true, or returns false
\* without raising with none of the batch's chunks inserted.
AddInsertsWholeBatch ==
    op = "add" =>
        /\ op_ret \in BOOLEAN
        /\ op_arg = <<>> => (op_ret = FALSE /\ collection = before)
        /\ op_arg # <<>> =>
              \/ /\ op_ret = TRUE
                 /\ \A k \in 1..Len(op_arg) : Inserted(op_arg[k])
              \/ /\ op_ret = FALSE
                 /\ collection = before

\* C19 amended: add_documents on an empty batch returns false without raising
\* and leaves the index unchanged; on a non-empty batch it either returns
\* true, having inserted every chunk of the batch whose id the index did not
\* hold and kept, as they were, the chunks already stored under an id of the
\* batch, or returns false without raising with the index unchanged.
AddAllOrNothing ==
    op = "add" =>
        /\ op_ret \in BOOLEAN
        /\ op_arg = <<>> => (op_ret = FALSE /\ collection = before)
        /\ op_arg # <<>> =>
              \/ /\ op_ret = TRUE
                 /\ DOMAIN collection.docs =
                        DOMAIN before.docs \cup IdsOf(op_arg)
                 /\ \A i \in DOMAIN before.docs :
                        collection.docs[i] = before.docs[i]
                 /\ \A k \in 1..Len(op_arg) :
                        op_arg[k].id \notin DOMAIN before.docs =>
                            Inserted(op_arg[k])
              \/ /\ op_ret = FALSE
                 /\ collection = before

\* a batch of one new chunk and one chunk whose id was stored with another
\* text: the first is inserted, the stored one is kept
AddAllOrNothingWitness ==
    /\ op = "add"
    /\ op_ret = TRUE
    /\ Len(op_arg) = 2
    /\ op_arg[1].id \notin DOMAIN before.docs
    /\ op_arg[2].id \in DOMAIN before.docs
    /\ before.docs[op_arg[2].id].text # op_arg[2].text
    /\ Inserted(op_arg[1])
    /\ collection.docs[op_arg[2].id] = before.docs[op_arg[2].id]

\* C20: after any sequence of successful adds a successful reset_collection
\* leaves the index with no chunks: until the next successful add the stats
\* count is 0 and every search returns the empty list; the same holds for an
\* index that was never populated.
ResetLeavesIndexEmpty ==
    /\ (op = "reset" /\ op_ret = TRUE) => emptied
    /\ emptied =>
          /\ DOMAIN collection.docs = {}
          /\ (op = "stats" /\ op_fault = "none" /\ collection.live) =>
                 op_ret.total_documents = 0
          /\ op = "search" => op_ret = <<>>

\* an index holding chunks was reset: the call returned true and the
\* collection holds nothing
ResetLeavesIndexEmptyWitness ==
    /\ op = "reset"
    /\ op_ret = TRUE
    /\ DOMAIN before.docs # {}
    /\ emptied
    /\ collection.live
    /\ DOMAIN collection.docs = {}

----------------------------------------------------------------------------
\* Properties of the calls made by process_query (checked under SpecRouter)

\* the number of entries of calls that are in S
CountIn(calls, S) == Cardinality({i \in 1..Len(calls) : calls[i] \in S})

\* C22: the language-model call is never retried: one answer_question or
\* summarize_issue call invokes the model at most once, one process_query at
\* most twice (once to classify, once inside the dispatched extractor), and
\* after a failed invocation no further invocation is made for that stage.
ModelNeverRetried ==
    /\ Len(llm_calls) <= 2
    /\ CountIn(llm_calls, {"route"}) <= 1
    /\ CountIn(llm_calls, {"qa", "issue_summary"}) <= 1
    /\ Routed => llm_calls[1] = "route"
    /\ Executed =>
           llm_calls = (IF ext_resp = NoResp THEN <<"route">>
                        ELSE <<"route", decision.tool>>)

\* both model calls of one process_query failed and each was made once
ModelNeverRetriedWitness ==
    /\ Done
    /\ route_resp.kind = "none"
    /\ ext_resp.kind = "raise"
    /\ llm_calls = <<"route", "qa">>

\* C27: _execute_tool dispatches what the decision says: for tool = qa it
\* calls answer_question exactly once with tool_input["query"] and never
\* summarize_issue, for tool = issue_summary it calls summarize_issue exactly
\* once with tool_input["issue_text"] and never answer_question; no
\* extractor is invoked before the routing decision has been made.
DispatchFollowsDecision ==
    /\ ~Executed => tool_calls = <<>>
    /\ Executed =>
          /\ Len(tool_calls) = 1
          /\ decision.tool = "qa" =>
                tool_calls[1] = [fn |-> "answer_question",
                                 arg |-> decision.tool_input.query]
          /\ decision.tool = "issue_summary" =>
                tool_calls[1] = [fn |-> "summarize_issue",
                                 arg |-> decision.tool_input.issue_text]

\* issue_summary was chosen with an issue_text and a different query in the
\* tool_input: summarize_issue got the issue_text
DispatchFollowsDecisionWitness ==
    /\ Executed
    /\ decision.tool = "issue_summary"
    /\ decision.tool_input.issue_text.t = "str"
    /\ decision.tool_input.query.t = "str"
    /\ decision.tool_input.query # decision.tool_input.issue_text
    /\ tool_calls = <<[fn |-> "summarize_issue",
                       arg |-> decision.tool_input.issue_text]>>

\* C28: in every mapping returned by process_query, fallback paths included,
\* the result has the shape of the tool named in the decision: a QAAnswer
\* for qa, an IssueSummary for issue_summary.
ResultShapeMatchesTool ==
    (Done /\ ~response.raised) =>
        /\ response.rec.decision.tool = "qa" =>
               DOMAIN response.rec.result =
                   {"query", "answer", "sources", "confidence"}
        /\ response.rec.decision.tool = "issue_summary" =>
               DOMAIN response.rec.result =
                   {"raw_text", "reported_issues", "affected_components",
                    "severity", "suggestions"}

\* the router chose issue_summary, the extractor raised and the outermost
\* fallback answered with a qa decision and a QAAnswer
ResultShapeMatchesToolWitness ==
    /\ Done
    /\ decision.tool = "issue_summary"
    /\ ext_out.raised
    /\ ~response.raised
    /\ response.rec.decision.tool = "qa"
    /\ DOMAIN response.rec.result = {"query", "answer", "sources", "confidence"}

EchoOf(arg, txt) ==
    /\ arg.t \in {"str"} \cup (IF lax THEN {"num"} ELSE {})
    /\ txt = arg.s

----------------------------------------------------------------------------
\* Frame of a failed reset (checked under SpecIndex)

\* C30: a reset_collection that returns false leaves the index as it was,
\* whether the failure was at the delete step or at the recreate step: the
\* stored chunks are unchanged and the collection handle is still usable, so
\* a later search finds the chunks stored before and a later add can succeed.
FailedResetLeavesIndex ==
    (op = "reset" /\ op_ret = FALSE) =>
        /\ collection.docs = before.docs
        /\ collection.live = before.live

----------------------------------------------------------------------------
\* Content and placement of the chunks (checked under SpecChunk)

\* the texts of chunks[k..k+m-1] put one after the other
RECURSIVE SliceText(_, _)
SliceText(k, m) ==
    IF m = 0 THEN <<>> ELSE SliceText(k, m - 1) \o chunks[k + m - 1].text

\* chunks[k..] hold exactly the paragraphs NonEmptyParagraphs[i..], in
\* order: a paragraph longer than the maximum as a run of slices of its own,
\* the others joined by blank lines inside chunks that hold nothing else
RECURSIVE Covers(_, _)
Covers(i, k) ==
    IF i > Len(NonEmptyParagraphs) THEN k > Len(chunks)
    ELSE IF k > Len(chunks) THEN FALSE
    ELSE IF Len(NonEmptyParagraphs[i]) > chunk_size
    THEN \E m \in 1..(Len(chunks) - k + 1) :
            /\ \A j \in k..(k + m - 1) : emit_path[j] = "slice"
            /\ SliceText(k, m) = NonEmptyParagraphs[i]
            /\ Covers(i + 1, k + m)
    ELSE LET ps == SplitBlank(chunks[k].text)
             m == Len(ps)
         IN /\ emit_path[k] # "slice"
            /\ m >= 1
            /\ i + m - 1 <= Len(NonEmptyParagraphs)
            /\ \A j \in 1..m : ps[j] = NonEmptyParagraphs[i + j - 1]
            /\ Covers(i + m, k + 1)

\* C25: chunk_text loses, duplicates and reorders nothing: the chunk texts in
\* emission order contain exactly the non-empty stripped paragraphs of the
\* input in input order (paragraphs sharing a chunk joined by a blank line),
\* a paragraph longer than the maximum is emitted, after the pending buffer
\* has been flushed as its own earlier chunk, as consecutive slices whose
\* concatenation is that paragraph, and an empty or whitespace-only input
\* yields zero chunks.
ChunksHoldParagraphs ==
    c_pc = "done" =>
        /\ Covers(1, 1)
        /\ NonEmptyParagraphs = <<>> => chunks = <<>>

\* a short paragraph was pending when a long one arrived: the buffer was
\* flushed as its own chunk, then the long paragraph was sliced
ChunksHoldParagraphsWitness ==
    /\ c_pc = "done"
    /\ Len(NonEmptyParagraphs) = 2
    /\ Len(NonEmptyParagraphs[2]) > chunk_size
    /\ emit_path = <<"hard_flush", "slice", "slice">>
    /\ chunks[1].text = NonEmptyParagraphs[1]
    /\ chunks[2].text \o chunks[3].text = NonEmptyParagraphs[2]

\* the step taken for a paragraph that is not longer than the maximum
PlacementStep ==
    (InLoop /\ Paragraph # <<>> /\ Len(Paragraph) <= chunk_size) =>
        IF Len(current_chunk) + Len(Paragraph) + 2 <= chunk_size
        THEN /\ current_chunk' = (IF current_chunk = <<>> THEN Paragraph
                                  ELSE current_chunk \o <<NL, NL>> \o Paragraph)
             /\ chunks' = chunks
        ELSE /\ current_chunk' = Paragraph
             /\ IF current_chunk = <<>> THEN chunks' = chunks
                ELSE /\ Len(chunks') = Len(chunks) + 1
                     /\ SubSeq(chunks', 1, Len(chunks)) = chunks
                     /\ chunks'[Len(chunks')].text = current_chunk

\* the last non-empty stripped paragraph before position i (<<>> if none)
RECURSIVE PreviousParagraph(_)
PreviousParagraph(i) ==
    IF i <= 1 THEN <<>>
    ELSE IF Strip(paragraphs[i - 1]) # <<>> THEN Strip(paragraphs[i - 1])
    ELSE PreviousParagraph(i - 1)

\* the paragraph just processed was put into a new buffer although it came
\* right after a paragraph q and the two joined by a blank line fit
SplitFromPrevious(q) ==
    /\ last_path = "flush_start"
    /\ q # <<>>
    /\ Len(q) + 2 + Len(current_chunk) <= chunk_size

\* C26 as stated, its consequence: consecutive paragraphs whose
\* blank-line-joined length fits within the maximum chunk size end up in the
\* same chunk.
ConsecutiveFitShareChunk == ~SplitFromPrevious(PreviousParagraph(p_idx - 1))

\* C26: for a paragraph p not longer than the maximum, chunk_text appends p
\* to the buffer (after a blank line) exactly when
\* len(buffer) + len(p) + 2 <= max and otherwise flushes the non-empty buffer
\* and starts a new buffer holding p; consequently two consecutive
\* paragraphs whose blank-line-joined length fits end up in the same chunk
\* when the first of them starts its buffer: they are separated only when
\* the buffer held more than the first of them.
PlacementRule ==
    /\ [][PlacementStep]_vars
    /\ [](SplitFromPrevious(PreviousParagraph(p_idx - 1)) =>
             Len(chunks[Len(chunks)].text)
                 > Len(PreviousParagraph(p_idx - 1)))

\* a paragraph was joined to the paragraph that had started the buffer, and
\* the next one, which would have fitted with its predecessor alone, went
\* into a new buffer
PlacementRuleWitness ==
    /\ last_path = "flush_start"
    /\ Len(NonEmptyParagraphs) = 3
    /\ p_idx > Len(paragraphs)
    /\ Len(chunks) = 1
    /\ Len(SplitBlank(chunks[1].text)) = 2
    /\ Len(NonEmptyParagraphs[2]) + 2 + Len(current_chunk) <= chunk_size

----------------------------------------------------------------------------
\* DocumentIngestion.process_documents: read each path, chunk what was read,
\* hand the whole batch to the index once

MaxDocs == 2

\* document paths as sequences of components; two directories hold a file
\* of the same name
DocPaths == {<<"x", "a.txt">>, <<"y", "a.txt">>, <<"b.txt">>}

PathLists == UNION {[1..n -> DocPaths] : n \in 0..MaxDocs}

\* Path(doc_path).name
PathName(path) == path[Len(path)]

\* read_file returned None: the file was not found or reading it failed
NotRead == [ok |-> FALSE, content |-> <<>>]

\* read_file returned the content of the file
ReadAs(content) == [ok |-> TRUE, content |-> content]

FileContents ==
    {<<>>, <<SP>>, <<"a">>, <<"a", "a">>, <<"a", NL, NL, "a">>, <<NL, NL, "a">>}

\* what read_file can return for a path
ReadFileOutcomes == {NotRead} \cup {ReadAs(c) : c \in FileContents}

\* if not content: continue
Usable(r) == r.ok /\ r.content # <<>>

\* {"id": chunk.chunk_id, "text": chunk.text, "metadata": chunk.metadata}
BatchEntry(c) == [id |-> c.chunk_id, text |-> c.text, metadata |-> c.metadata]

\* the entries appended to all_chunks for the chunks cs of one document
BatchEntries(cs) == [k \in 1..Len(cs) |-> BatchEntry(cs[k])]

\* faulty variant: the batch is handed to add_documents even when it is empty
ProcessDocumentsEndAlwaysAdds(all, coll, fault) ==
    LET r == AddDocuments(coll, all, fault)
    IN [called |-> TRUE, ret |-> r.ret, coll |-> r.coll]

\* the end of process_documents: return False on an empty batch, otherwise
\* return what vector_db.add_documents(all_chunks) returns
ProcessDocumentsEnd(all, coll, fault) ==
    IF all = <<>> THEN [called |-> FALSE, ret |-> FALSE, coll |-> coll]
    ELSE LET r == AddDocuments(coll, all, fault)
         IN [called |-> TRUE, ret |-> r.ret, coll |-> r.coll]

InitIngest ==
    /\ doc_paths \in PathLists
    /\ doc_idx = 1
    /\ all_chunks = <<>>
    /\ doc_chunks = <<>>
    /\ add_calls = <<>>
    /\ g_ret = Pending
    /\ g_pc = "read"
    /\ text = <<>>
    /\ source = "a.txt"
    /\ chunk_size \in {1, MaxChunkSize}
    /\ paragraphs = <<>>
    /\ p_idx = 1
    /\ current_chunk = <<>>
    /\ chunk_counter = 0
    /\ chunks = <<>>
    /\ emit_path = <<>>
    /\ last_path = "idle"
    /\ c_pc = "idle"
    /\ query = "q0"
    /\ lax = FALSE
    /\ RouterIdle("idle")
    /\ ScoreIdle
    /\ IndexIdle
    /\ ServeIdle

\* source = Path(doc_path).name; content = self.read_file(doc_path);
\* skip the path when nothing was read, otherwise enter chunk_text
IngestRead ==
    /\ g_pc = "read"
    /\ doc_idx <= Len(doc_paths)
    /\ \E r \in ReadFileOutcomes :
          IF Usable(r)
          THEN /\ text' = r.content
               /\ source' = PathName(doc_paths[doc_idx])
               /\ paragraphs' = SplitBlank(r.content)
               /\ p_idx' = 1
               /\ current_chunk' = <<>>
               /\ chunk_counter' = 0
               /\ chunks' = <<>>
               /\ emit_path' = <<>>
               /\ last_path' = "start"
               /\ c_pc' = "loop"
               /\ g_pc' = "chunk"
               /\ UNCHANGED <<chunk_size, doc_idx, doc_chunks>>
          ELSE /\ doc_idx' = doc_idx + 1
               /\ doc_chunks' = Append(doc_chunks, <<>>)
               /\ UNCHANGED <<cvars, g_pc>>
    /\ UNCHANGED <<doc_paths, all_chunks, add_calls, g_ret>>
    /\ UNCHANGED <<rvars, svars, ivars, tvars>>

\* chunk_text returned: if not chunks: continue; otherwise append one entry
\* per chunk to all_chunks
IngestCollect ==
    /\ g_pc = "chunk"
    /\ c_pc = "done"
    /\ all_chunks' = all_chunks \o BatchEntries(chunks)
    /\ doc_chunks' = Append(doc_chunks, chunks)
    /\ doc_idx' = doc_idx + 1
    /\ g_pc' = "read"
    /\ UNCHANGED <<doc_paths, add_calls, g_ret>>
    /\ UNCHANGED <<cvars, rvars, svars, ivars, tvars>>

\* after the loop: if not all_chunks: return False;
\* success = vector_db.add_documents(all_chunks); return success
IngestFinish ==
    /\ g_pc = "read"
    /\ doc_idx > Len(doc_paths)
    /\ \E fault \in {"none", "encode", "store"} :
          LET e == ProcessDocumentsEnd(all_chunks, collection, fault)
          IN /\ g_ret' = e.ret
             /\ collection' = e.coll
             /\ add_calls' = IF e.called
                             THEN Append(add_calls, [batch |-> all_chunks,
                                                     ret |-> e.ret])
                             ELSE add_calls
             /\ IF e.called
                THEN /\ before' = collection
                     /\ op' = "add"
                     /\ op_arg' = all_chunks
                     /\ op_fault' = fault
                     /\ op_ret' = e.ret
                     /\ emptied' = (emptied /\ ~e.ret)
                ELSE UNCHANGED <<before, op, op_arg, op_fault, op_ret, emptied>>
    /\ g_pc' = "done"
    /\ UNCHANGED <<doc_paths, doc_idx, all_chunks, doc_chunks>>
    /\ UNCHANGED <<cvars, rvars, svars, tvars>>

NextIngest ==
    \/ IngestRead
    \/ ChunkSkipEmpty
    \/ ChunkHardSplit
    \/ ChunkFlushStart
    \/ ChunkAppend
    \/ ChunkFinalFlush
    \/ IngestCollect
    \/ IngestFinish

SpecIngest == InitIngest /\ [][NextIngest]_vars

\* the chunks of the documents handled so far, in path order
RECURSIVE ChunksUpTo(_)
ChunksUpTo(n) ==
    IF n = 0 THEN <<>> ELSE ChunksUpTo(n - 1) \o BatchEntries(doc_chunks[n])

\* C23: process_documents never raises on unreadable, missing or empty
\* documents: it skips them and goes on; if no document yields a chunk (an
\* empty path list included) it returns false without calling
\* add_documents; otherwise it calls add_documents exactly once, with the
\* chunks of all readable documents in path order, and returns what
\* add_documents returned.
IngestSkipsAndAddsOnce ==
    g_pc = "done" =>
        /\ Len(doc_chunks) = Len(doc_paths)
        /\ g_ret \in BOOLEAN
        /\ IF ChunksUpTo(Len(doc_chunks)) = <<>>
           THEN add_calls = <<>> /\ g_ret = FALSE
           ELSE /\ Len(add_calls) = 1
                /\ add_calls[1].batch = ChunksUpTo(Len(doc_chunks))
                /\ g_ret = add_calls[1].ret

\* the first document could not be read, the second one gave chunks:
\* add_documents was called once and its true was returned
IngestSkipsAndAddsOnceWitness ==
    /\ g_pc = "done"
    /\ Len(doc_paths) = 2
    /\ doc_chunks[1] = <<>>
    /\ doc_chunks[2] # <<>>
    /\ Len(add_calls) = 1
    /\ add_calls[1].ret = TRUE
    /\ g_ret = TRUE

\* C24: the chunk ids in the batch that process_documents hands to
\* add_documents are pairwise distinct, each id being determined by
\* (source_name, sequence_index).
BatchIdsDistinct ==
    \A k \in 1..Len(add_calls) :
        /\ DistinctIds(add_calls[k].batch)
        /\ \A i \in 1..Len(add_calls[k].batch) :
              add_calls[k].batch[i].id =
                  ChunkIdStr(add_calls[k].batch[i].metadata.source,
                             add_calls[k].batch[i].metadata.chunk_id)

----------------------------------------------------------------------------
\* Ingestion background tasks and resets working on the shared index

MaxTasks == 2

Tasks == 1..MaxTasks

InitServe ==
    /\ task_kind \in [Tasks -> {"ingest", "reset"}]
    /\ task_pc = [t \in Tasks |-> "scheduled"]
    /\ ChunkIdle
    /\ query = "q0"
    /\ lax = FALSE
    /\ RouterIdle("idle")
    /\ ScoreIdle
    /\ IndexIdle
    /\ IngestIdle

\* a scheduled run_ingestion task is picked up by a worker thread and
\* reaches vector_db.add_documents
TaskBeginAdd(t) ==
    /\ task_kind[t] = "ingest"
    /\ task_pc[t] = "scheduled"
    /\ task_pc' = [task_pc EXCEPT ![t] = "running"]
    /\ UNCHANGED <<cvars, rvars, svars, ivars, gvars, task_kind>>

\* the add_documents call of the task writes (or fails) and returns
TaskEndAdd(t) ==
    /\ task_kind[t] = "ingest"
    /\ task_pc[t] = "running"
    /\ \E batch \in Batches \ {<<>>}, fault \in {"none", "encode", "store"} :
          LET r == AddDocuments(collection, batch, fault)
          IN /\ collection' = r.coll
             /\ op_arg' = batch
             /\ op_fault' = fault
             /\ op_ret' = r.ret
             /\ emptied' = (emptied /\ ~r.ret)
    /\ before' = collection
    /\ op' = "add"
    /\ task_pc' = [task_pc EXCEPT ![t] = "done"]
    /\ UNCHANGED <<cvars, rvars, svars, gvars, task_kind>>

\* a caller enters vector_db.reset_collection
TaskBeginReset(t) ==
    /\ task_kind[t] = "reset"
    /\ task_pc[t] = "scheduled"
    /\ task_pc' = [task_pc EXCEPT ![t] = "running"]
    /\ UNCHANGED <<cvars, rvars, svars, ivars, gvars, task_kind>>

\* the reset_collection call deletes and recreates (or fails) and returns
TaskEndReset(t) ==
    /\ task_kind[t] = "reset"
    /\ task_pc[t] = "running"
    /\ \E fault \in {"none", "delete", "create"} :
          LET r == ResetCollection(collection, fault)
          IN /\ collection' = r.coll
             /\ op_fault' = fault
             /\ op_ret' = r.ret
             /\ emptied' = (emptied \/ r.ret)
    /\ before' = collection
    /\ op' = "reset"
    /\ op_arg' = <<>>
    /\ task_pc' = [task_pc EXCEPT ![t] = "done"]
    /\ UNCHANGED <<cvars, rvars, svars, gvars, task_kind>>

NextServe ==
    \E t \in Tasks :
        \/ TaskBeginAdd(t)
        \/ TaskEndAdd(t)
        \/ TaskBeginReset(t)
        \/ TaskEndReset(t)

SpecServe == InitServe /\ [][NextServe]_vars

\* the tasks that are inside add_documents or reset_collection
InProgress == {t \in Tasks : task_pc[t] = "running"}

\* C21: mutations of the shared index are serialized: in every interleaving
\* of ingestion requests (each run as a background task that calls
\* add_documents) and reset_collection calls, at most one add or reset is in
\* progress on the index at any time.
MutationsSerialized == Cardinality(InProgress) <= 1

====
